---- MODULE Spec2Model ----
(***************************************************************************)
(* A model of app.py: the scheduled job run_full_job (history file,        *)
(* collection from the four ESPN league feeds, filter and sort, the        *)
(* per-article loop with scraping, Gemini rewrite and Facebook publish).   *)
(*                                                                         *)
(* Strings that the code converts or compares are sequences: a history     *)
(* line and an article id are sequences of one-character strings, a        *)
(* 'published' timestamp is a sequence of digit codes compared             *)
(* lexicographically, as Python compares str.                              *)
(***************************************************************************)
EXTENDS Integers, Sequences, FiniteSets, TLC

VARIABLES
    env,              \* os.getenv: [gemini, facebook], fixed for the process
    file,             \* posted_articles.txt: the sequence of its lines
    posted_ids,       \* run_full_job's local set, loaded at the run's start
    raw_articles,     \* what get_espn_news returned in this run
    sorted_articles,  \* the list the for loop iterates
    idx,              \* position of the for loop (1-based)
    new_posts_made,   \* run_full_job's counter
    pc,               \* "idle" | "loop" | "terminated" | sort/rewrite harness
    runs,             \* runs started so far (the first is the one of __main__)
    endReason,        \* how the last finished run ended
    fetch,            \* history: the outcome of each league's request
    last,             \* history: what the last loop iteration did
    initIds,          \* history: the ids the history file held at start-up
    histStart,        \* history: per run that loaded the file, the ids
                      \* durably recorded when it began
    startLen,         \* history: the file's length when the run began
    succeeded,        \* history: ids whose post_to_facebook returned True
    quotaSeen,        \* history: a rewrite of this run hit a quota error
    pool,             \* rewrite harness: status of each configured credential
    callLog           \* rewrite harness: credentials used by each rewrite call

vars == <<env, file, posted_ids, raw_articles, sorted_articles, idx,
          new_posts_made, pc, runs, endReason, fetch, last, initIds,
          histStart, startLen, succeeded, quotaSeen,
          pool, callLog>>

----------------------------------------------------------------------------
(* Bounds of the model *)

MaxRuns == 2        \* runs of the job per behaviour
MaxLen == 3         \* sort harness: length of the collected list
MaxKeys == 3        \* rewrite harness: credentials the operator holds
MaxRewrites == 2    \* rewrite harness: rewrite calls per behaviour

(* Program constants *)

MaxPosts == 5
NumLeagues == 4

----------------------------------------------------------------------------
(* Strings *)

None == "<None>"

Whitespace == {" ", "\t"}

DigitChar == <<"0", "1", "2", "3", "4", "5", "6", "7", "8", "9">>

RECURSIVE Digits(_)
Digits(n) == IF n < 10 THEN <<DigitChar[n + 1]>>
             ELSE Digits(n \div 10) \o <<DigitChar[(n % 10) + 1]>>

\* str(article_summary.get('id')): a missing id is None, and str(None) = "None"
Str(id) == IF id = <<>> THEN <<"N", "o", "n", "e">> ELSE Digits(id[1])

RECURSIVE LStrip(_)
LStrip(s) == IF s # <<>> /\ Head(s) \in Whitespace THEN LStrip(Tail(s)) ELSE s

RECURSIVE RStrip(_)
RStrip(s) == IF s # <<>> /\ s[Len(s)] \in Whitespace
             THEN RStrip(SubSeq(s, 1, Len(s) - 1)) ELSE s

Strip(s) == RStrip(LStrip(s))

\* Python's str < str on the timestamps
RECURSIVE LexLess(_, _)
LexLess(a, b) ==
    IF b = <<>> THEN FALSE
    ELSE IF a = <<>> THEN TRUE
    ELSE IF a[1] # b[1] THEN a[1] < b[1]
    ELSE LexLess(Tail(a), Tail(b))

----------------------------------------------------------------------------
(* The history file *)

\* variant: the lines are not stripped
load_posted_ids_nostrip(f) == {f[i] : i \in 1..Len(f)} \ {<<>>}

load_posted_ids(f) == {Strip(f[i]) : i \in 1..Len(f)} \ {<<>>}

\* variant: the file is opened with 'w'
save_posted_id_truncate(f, article_id) == <<article_id>>

save_posted_id(f, article_id) == Append(f, article_id)

----------------------------------------------------------------------------
(* Candidate collection *)

Leagues == <<"Premier League", "La Liga", "Bundesliga", "Serie A">>

Summary(id, type, published, href, image) ==
    [id |-> id, type |-> type, published |-> published, href |-> href,
     image |-> image, headline |-> "EN", source |-> "", league |-> ""]

\* What the four league endpoints hold: overlapping ids (7 is in two
\* leagues), a video, a summary without id, one without link, one without
\* image, equal timestamps, a summary without timestamp.
EspnFeeds ==
    <<  << Summary(<<7>>, "Story", <<3>>, TRUE, TRUE),
           Summary(<<2>>, "Media", <<4>>, TRUE, TRUE),
           Summary(<<8>>, "Story", <<0>>, TRUE, TRUE) >>,
        << Summary(<<7>>, "Story", <<3>>, TRUE, TRUE),
           Summary(<<12>>, "Story", <<1, 0>>, TRUE, TRUE) >>,
        << Summary(<<>>, "Story", <<2>>, TRUE, TRUE),
           Summary(<<4>>, "Story", <<2>>, FALSE, TRUE) >>,
        << Summary(<<5>>, "Story", <<1>>, TRUE, TRUE),
           Summary(<<6>>, "Story", <<>>, TRUE, FALSE) >>  >>

\* requests.get / raise_for_status / response.json / data.get('articles'):
\* "ok", a RequestException (network, HTTP status, undecodable body), or a
\* decoded body of another shape (a list, "articles": null), on which
\* data.get or len raises AttributeError / TypeError
FeedOutcomes == {"ok", "RequestException", "TypeError"}

Tag(a, l) == [a EXCEPT !.source = "ESPN", !.league = Leagues[l]]

TagAll(s, l) == [i \in 1..Len(s) |-> Tag(s[i], l)]

\* the for loop of get_espn_news over leagues l..NumLeagues
RECURSIVE CollectFrom(_, _, _)
CollectFrom(l, feeds, outcome) ==
    IF l > NumLeagues THEN <<>>
    ELSE (IF outcome[l] = "ok" THEN TagAll(feeds[l], l) ELSE <<>>)
         \o CollectFrom(l + 1, feeds, outcome)

\* only RequestException is caught in get_espn_news
espn_raises(outcome) == \E l \in 1..NumLeagues : outcome[l] = "TypeError"

get_espn_news(feeds, outcome) == CollectFrom(1, feeds, outcome)

RECURSIVE SelectSeq2(_)
SelectSeq2(s) ==
    IF s = <<>> THEN <<>>
    ELSE IF Head(s).type # "Media" THEN <<Head(s)>> \o SelectSeq2(Tail(s))
    ELSE SelectSeq2(Tail(s))

\* [a for a in raw_articles if a.get('type') != 'Media']
articles_no_videos(raw) == SelectSeq2(raw)

\* where sorted(..., reverse=True) puts x in an already sorted prefix: before
\* the first element whose key is smaller (equal keys keep their order)
\* variant: x goes before the elements of equal key
RECURSIVE InsertDesc_unstable(_, _)
InsertDesc_unstable(s, x) ==
    IF s = <<>> THEN <<x>>
    ELSE IF ~LexLess(x.published, Head(s).published) THEN <<x>> \o s
    ELSE <<Head(s)>> \o InsertDesc_unstable(Tail(s), x)

RECURSIVE InsertDesc(_, _)
InsertDesc(s, x) ==
    IF s = <<>> THEN <<x>>
    ELSE IF LexLess(Head(s).published, x.published) THEN <<x>> \o s
    ELSE <<Head(s)>> \o InsertDesc(Tail(s), x)

RECURSIVE SortFrom(_, _)
SortFrom(acc, s) ==
    IF s = <<>> THEN acc ELSE SortFrom(InsertDesc(acc, Head(s)), Tail(s))

\* sorted(articles_no_videos, key=published, reverse=True)
sorted_desc(s) == SortFrom(<<>>, s)

----------------------------------------------------------------------------
(* Scraping *)

\* the page: paragraphs found; none found; the request fails; no container
\* and no <body>, so soup.find('body').find_all raises AttributeError
ScrapeOutcomes == {"content", "empty", "RequestException", "no_body"}

get_article_content(page) ==
    CASE page = "content" -> "text"
      [] page = "empty" -> None
      [] page = "RequestException" -> None
      [] OTHER -> "raise"

----------------------------------------------------------------------------
(* Rewrite *)

\* generate_content raises (quota, another error), or returns text that is
\* not JSON, or JSON: the pair asked for, the original echoed, an object
\* lacking one of the two keys, an empty / null value, a list
GeminiOutcomes == {"pair", "echo", "quota", "error", "not_json",
                   "no_headline", "no_body", "empty", "list"}

Fallback(article) ==
    [t |-> "dict",
     d |-> [headline_th |-> article.headline, body_th_styled |-> article.body]]

\* json.loads(cleaned_response_text)
json_loads(article, g) ==
    CASE g = "pair" ->
           [t |-> "dict", d |-> [headline_th |-> "TH", body_th_styled |-> "TH body"]]
      [] g = "echo" ->
           [t |-> "dict",
            d |-> [headline_th |-> article.headline, body_th_styled |-> article.body]]
      [] g = "no_headline" -> [t |-> "dict", d |-> [body_th_styled |-> "TH body"]]
      [] g = "no_body" -> [t |-> "dict", d |-> [headline_th |-> "TH"]]
      [] g = "empty" -> [t |-> "null", d |-> <<>>]
      [] OTHER -> [t |-> "list", d |-> <<>>]

\* variant: the dummy key is not recognised
gemini_calls_nodummy(key) == IF key = "" THEN 0 ELSE 1

\* the number of generate_content calls one rewrite makes
gemini_calls(key) == IF key = "" \/ key = "DUMMY_KEY" THEN 0 ELSE 1

\* variant: the response is parsed whatever the call did
translate_unguarded(article, key, g) ==
    IF key = "" \/ key = "DUMMY_KEY" THEN Fallback(article)
    ELSE IF g \in {"error", "not_json"} THEN Fallback(article)
    ELSE json_loads(article, IF g = "quota" THEN "pair" ELSE g)

translate_and_style_article(article, key, g) ==
    IF key = "" \/ key = "DUMMY_KEY" THEN Fallback(article)
    ELSE IF g \in {"quota", "error", "not_json"} THEN Fallback(article)
    ELSE json_loads(article, g)

Truthy(v) == v.t = "list" \/ (v.t = "dict" /\ DOMAIN v.d # {})

Get(d, k) == IF k \in DOMAIN d THEN d[k] ELSE None

\* line 291: styled_result and styled_result.get('headline_th') != headline
post_decision(styled, article) ==
    IF ~Truthy(styled) THEN "skip"
    ELSE IF styled.t # "dict" THEN "raise"
    ELSE IF Get(styled.d, "headline_th") # article.headline THEN "post"
    ELSE "skip"

----------------------------------------------------------------------------
(* Publish *)

PublishOutcomes == {"ok", "GraphAPIError"}

\* TRUE iff put_photo was reached and succeeded
post_to_facebook(styled, article, facebook, p) ==
    IF ~facebook THEN FALSE
    ELSE IF ~({"headline_th", "body_th_styled"} \subseteq DOMAIN styled.d)
         THEN FALSE                      \* KeyError building the message
    ELSE IF ~article.image THEN FALSE    \* requests.get(None) raises
    ELSE p = "ok"

----------------------------------------------------------------------------
(* The job *)

Envs == { [gemini |-> "key", facebook |-> TRUE],
          [gemini |-> "DUMMY_KEY", facebook |-> TRUE],
          [gemini |-> "", facebook |-> TRUE],
          [gemini |-> "key", facebook |-> FALSE] }

\* the history file at start-up, with the ids it records
InitialHistories ==
    { [file |-> <<>>, ids |-> {}],
      [file |-> << <<" ", "7", " ">>, <<>>, <<"\t">> >>, ids |-> {<<"7">>}] }

NoStep == [id |-> <<>>, branch |-> "none", g |-> "none", calls |-> 0,
           invoked |-> FALSE, quotaBefore |-> FALSE]

Init ==
    /\ env \in Envs
    /\ \E h \in InitialHistories : file = h.file /\ initIds = h.ids
    /\ posted_ids = {}
    /\ raw_articles = <<>>
    /\ sorted_articles = <<>>
    /\ idx = 0
    /\ new_posts_made = 0
    /\ pc = "idle"
    /\ runs = 0
    /\ endReason = "none"
    /\ fetch = [l \in 1..NumLeagues |-> "none"]
    /\ last = NoStep
    /\ histStart = <<>>
    /\ startLen = 0
    /\ succeeded = {}
    /\ quotaSeen = FALSE
    /\ pool = <<>>
    /\ callLog = <<>>

harness == <<pool, callLog>>

\* an exception leaves run_full_job: the first run is called from __main__,
\* which catches only KeyboardInterrupt and SystemExit; later runs are
\* called by the scheduler, which logs the exception and goes on
Raised == IF runs = 1 THEN "terminated" ELSE "idle"

credentials_ok == env.gemini # "" /\ env.facebook

\* lines 225-227
RunAborted ==
    /\ pc = "idle" /\ runs < MaxRuns
    /\ ~credentials_ok
    /\ runs' = runs + 1
    /\ endReason' = "aborted"
    /\ last' = NoStep
    /\ UNCHANGED <<env, file, posted_ids, raw_articles, sorted_articles, idx,
                   new_posts_made, pc, fetch, initIds, histStart, startLen,
                   succeeded, quotaSeen, harness>>

\* lines 230-234, get_espn_news raising
RunCollectRaises ==
    /\ pc = "idle" /\ runs < MaxRuns
    /\ credentials_ok
    /\ \E o \in [1..NumLeagues -> FeedOutcomes] :
         /\ espn_raises(o)
         /\ fetch' = o
    /\ runs' = runs + 1
    /\ posted_ids' = load_posted_ids(file)
    /\ histStart' = Append(histStart, initIds \cup succeeded)
    /\ startLen' = Len(file)
    /\ raw_articles' = <<>>
    /\ sorted_articles' = <<>>
    /\ idx' = 0
    /\ new_posts_made' = 0
    /\ pc' = IF runs = 0 THEN "terminated" ELSE "idle"
    /\ endReason' = "collect_exception"
    /\ last' = NoStep
    /\ quotaSeen' = FALSE
    /\ UNCHANGED <<env, file, initIds, succeeded, harness>>

\* lines 230-245
RunStart ==
    /\ pc = "idle" /\ runs < MaxRuns
    /\ credentials_ok
    /\ \E o \in [1..NumLeagues -> FeedOutcomes] :
         /\ ~espn_raises(o)
         /\ fetch' = o
         /\ raw_articles' = get_espn_news(EspnFeeds, o)
         /\ sorted_articles' = sorted_desc(articles_no_videos(get_espn_news(EspnFeeds, o)))
    /\ runs' = runs + 1
    /\ posted_ids' = load_posted_ids(file)
    /\ histStart' = Append(histStart, initIds \cup succeeded)
    /\ startLen' = Len(file)
    /\ idx' = 1
    /\ new_posts_made' = 0
    /\ pc' = "loop"
    /\ endReason' = "running"
    /\ last' = NoStep
    /\ quotaSeen' = FALSE
    /\ UNCHANGED <<env, file, initIds, succeeded, harness>>

InLoop == pc = "loop" /\ idx <= Len(sorted_articles)

\* variant: the loop has no break
InBody_nocap == pc = "loop" /\ idx <= Len(sorted_articles)

InBody == InLoop /\ new_posts_made < MaxPosts

article_summary == sorted_articles[idx]

article_id == Str(article_summary.id)

final_article == [id |-> article_id, headline |-> article_summary.headline,
                  image |-> article_summary.image, body |-> "text",
                  source |-> article_summary.source]

Step(branch, g, calls, invoked) ==
    [id |-> article_id, branch |-> branch, g |-> g, calls |-> calls,
     invoked |-> invoked, quotaBefore |-> quotaSeen]

loopFrame == <<env, posted_ids, raw_articles, sorted_articles, runs, fetch,
               initIds, histStart, startLen, harness>>

\* lines 248-250
LoopBreak ==
    /\ InLoop /\ new_posts_made >= MaxPosts
    /\ pc' = "idle"
    /\ endReason' = "cap"
    /\ UNCHANGED <<file, idx, new_posts_made, last, succeeded, quotaSeen>>
    /\ UNCHANGED loopFrame

\* the for loop runs out of candidates, lines 305-308
LoopExhausted ==
    /\ pc = "loop" /\ idx > Len(sorted_articles)
    /\ pc' = "idle"
    /\ endReason' = "exhausted"
    /\ UNCHANGED <<file, idx, new_posts_made, last, succeeded, quotaSeen>>
    /\ UNCHANGED loopFrame

Continue(step) ==
    /\ idx' = idx + 1
    /\ last' = step
    /\ UNCHANGED <<file, new_posts_made, pc, endReason, succeeded>>
    /\ UNCHANGED loopFrame

Propagate(step) ==
    /\ pc' = Raised
    /\ endReason' = "exception"
    /\ last' = step
    /\ UNCHANGED <<file, idx, new_posts_made, succeeded>>
    /\ UNCHANGED loopFrame

\* lines 253-257
SkipDuplicate ==
    /\ InBody
    /\ article_id \in posted_ids
    /\ Continue(Step("duplicate", "none", 0, FALSE))
    /\ UNCHANGED quotaSeen

\* lines 262-265
SkipMissingUrl ==
    /\ InBody
    /\ article_id \notin posted_ids
    /\ ~article_summary.href
    /\ Continue(Step("no_url", "none", 0, FALSE))
    /\ UNCHANGED quotaSeen

Scrapable == InBody /\ article_id \notin posted_ids /\ article_summary.href

\* lines 267-270
SkipNoContent ==
    /\ Scrapable
    /\ \E page \in ScrapeOutcomes : get_article_content(page) = None
    /\ Continue(Step("no_content", "none", 0, FALSE))
    /\ UNCHANGED quotaSeen

\* line 267, get_article_content raising
ScrapeRaises ==
    /\ Scrapable
    /\ \E page \in ScrapeOutcomes : get_article_content(page) = "raise"
    /\ Propagate(Step("scrape_raised", "none", 0, FALSE))
    /\ UNCHANGED quotaSeen

Scraped == Scrapable /\ \E page \in ScrapeOutcomes : get_article_content(page) = "text"

styled_result(g) == translate_and_style_article(final_article, env.gemini, g)

Calls == gemini_calls(env.gemini)

SawQuota(g) == quotaSeen \/ (Calls > 0 /\ g = "quota")

\* lines 288-291, 302-303
SkipNotStyled ==
    /\ Scraped
    /\ \E g \in GeminiOutcomes :
         /\ post_decision(styled_result(g), final_article) = "skip"
         /\ Continue(Step("not_styled", g, Calls, FALSE))
         /\ quotaSeen' = SawQuota(g)

\* line 291 raising: styled_result has no .get
StyledRaises ==
    /\ Scraped
    /\ \E g \in GeminiOutcomes :
         /\ post_decision(styled_result(g), final_article) = "raise"
         /\ Propagate(Step("styled_raised", g, Calls, FALSE))
         /\ quotaSeen' = SawQuota(g)

\* lines 292-298, post_to_facebook returning False
PostFails ==
    /\ Scraped
    /\ \E g \in GeminiOutcomes, p \in PublishOutcomes :
         /\ post_decision(styled_result(g), final_article) = "post"
         /\ ~post_to_facebook(styled_result(g), final_article, env.facebook, p)
         /\ Continue(Step("post_failed", g, Calls, TRUE))
         /\ quotaSeen' = SawQuota(g)

\* lines 292-301
PostSucceeds ==
    /\ Scraped
    /\ \E g \in GeminiOutcomes, p \in PublishOutcomes :
         /\ post_decision(styled_result(g), final_article) = "post"
         /\ post_to_facebook(styled_result(g), final_article, env.facebook, p)
         /\ last' = Step("posted", g, Calls, TRUE)
         /\ quotaSeen' = SawQuota(g)
    /\ file' = save_posted_id(file, article_id)
    /\ succeeded' = succeeded \cup {article_id}
    /\ new_posts_made' = new_posts_made + 1
    /\ idx' = idx + 1
    /\ UNCHANGED <<pc, endReason>>
    /\ UNCHANGED loopFrame

Next ==
    \/ RunAborted
    \/ RunCollectRaises
    \/ RunStart
    \/ LoopBreak
    \/ LoopExhausted
    \/ SkipDuplicate
    \/ SkipMissingUrl
    \/ SkipNoContent
    \/ ScrapeRaises
    \/ SkipNotStyled
    \/ StyledRaises
    \/ PostFails
    \/ PostSucceeds

Spec == Init /\ [][Next]_vars

----------------------------------------------------------------------------
(* Filter and sort on every short list of summaries (lines 237-241) *)

SortTimes == {<<>>, <<1>>, <<1, 0>>, <<2>>}

SortSummaries ==
    {Summary(id, type, published, TRUE, TRUE) :
        id \in {<<1>>, <<2>>}, type \in {"Story", "Media"}, published \in SortTimes}

BoundedSeq(S, n) == UNION {[1..k -> S] : k \in 0..n}

Idle ==
    /\ file = <<>> /\ initIds = {}
    /\ posted_ids = {}
    /\ sorted_articles = <<>>
    /\ idx = 0
    /\ new_posts_made = 0
    /\ runs = 0
    /\ endReason = "none"
    /\ fetch = [l \in 1..NumLeagues |-> "none"]
    /\ last = NoStep
    /\ histStart = <<>>
    /\ startLen = 0
    /\ succeeded = {}
    /\ quotaSeen = FALSE
    /\ callLog = <<>>

InitSort ==
    /\ Idle
    /\ env = [gemini |-> "key", facebook |-> TRUE]
    /\ raw_articles \in BoundedSeq(SortSummaries, MaxLen)
    /\ pool = <<>>
    /\ pc = "sort"

SortApply ==
    /\ pc = "sort"
    /\ sorted_articles' = sorted_desc(articles_no_videos(raw_articles))
    /\ pc' = "sorted"
    /\ UNCHANGED <<env, file, posted_ids, raw_articles, idx, new_posts_made,
                   runs, endReason, fetch, last, initIds, histStart, startLen,
                   succeeded, quotaSeen, harness>>

SpecSort == InitSort /\ [][SortApply]_vars

----------------------------------------------------------------------------
(* The rewrite on its own (lines 45-108), for an operator who holds several *)
(* credentials.  The code reads one, os.getenv("GEMINI_API_KEY"): pool[1].  *)

KeyStatus == {"ok", "quota", "error"}

\* what generate_content does with a credential of this status
KeyResponse(st) ==
    CASE st = "ok" -> "pair" [] st = "quota" -> "quota" [] OTHER -> "error"

InitRewrite ==
    /\ Idle
    /\ env \in {[gemini |-> "key", facebook |-> TRUE],
                [gemini |-> "DUMMY_KEY", facebook |-> TRUE]}
    /\ raw_articles = <<>>
    /\ pool \in UNION {[1..n -> KeyStatus] : n \in 1..MaxKeys}
    /\ pc = "rewrite"

HarnessArticle == [id |-> <<"1">>, headline |-> "EN", image |-> TRUE,
                   body |-> "text", source |-> "ESPN"]

\* one call of translate_and_style_article and the test of line 291
RewriteCall ==
    /\ pc = "rewrite"
    /\ Len(callLog) < MaxRewrites
    /\ LET styled == translate_and_style_article(HarnessArticle, env.gemini,
                                                 KeyResponse(pool[1]))
       IN callLog' = Append(callLog,
              [used |-> IF gemini_calls(env.gemini) = 0 THEN <<>> ELSE <<1>>,
               ok |-> post_decision(styled, HarnessArticle) = "post"])
    /\ UNCHANGED <<env, file, posted_ids, raw_articles, sorted_articles, idx,
                   new_posts_made, pc, runs, endReason, fetch, last, initIds,
                   histStart, startLen, succeeded, quotaSeen, pool>>

SpecRewrite == InitRewrite /\ [][RewriteCall]_vars

----------------------------------------------------------------------------
(* The claims *)

RunHistory == histStart[Len(histStart)]

\* C1: an article id that is in the durable History when a run starts is
\* never passed to the publisher (post_to_facebook) in that run or in a
\* later one: whenever the last loop iteration invoked the publisher, its id
\* was in the History at the start of no run so far.
C1_NoRepublish ==
    last.invoked => \A r \in 1..Len(histStart) : last.id \notin histStart[r]

\* an id published in an earlier run comes back and is skipped
C1_Witness ==
    /\ Len(histStart) >= 2
    /\ last.branch = "duplicate"
    /\ last.id \in RunHistory \ initIds

FailedStep == last.branch \in {"not_styled", "post_failed"}

\* C2: the History read from the file is exactly the start-up ids plus the
\* ids whose publish succeeded; no step removes an id; an iteration whose
\* rewrite or publish fails leaves the file alone; and only ids that are in
\* the History are skipped as duplicates, so a failed article is a normal
\* candidate when the source returns it again.
C2_HistoryIffPublished ==
    /\ [](load_posted_ids(file) = initIds \cup succeeded)
    /\ [](last.branch = "duplicate" => last.id \in initIds \cup succeeded)
    /\ [][load_posted_ids(file) \subseteq load_posted_ids(file')]_vars
    /\ [][idx' # idx /\ last'.branch \in {"not_styled", "post_failed"}
            => file' = file]_vars

\* a publish failed in a run in which others succeeded: the failed id is
\* not in the History
C2_Witness ==
    /\ FailedStep
    /\ last.g = "pair"
    /\ succeeded # {}
    /\ last.id \notin load_posted_ids(file)

\* C3: in every run at most 5 publishes succeed and at most 5 ids are
\* appended to the History, and once 5 have succeeded no further candidate
\* is taken (the last iteration is the fifth success).
C3_CapPerRun ==
    /\ new_posts_made <= 5
    /\ Len(file) - startLen <= 5
    /\ new_posts_made >= 5 => last.branch = "posted"

\* the loop broke at the cap with a publishable candidate left
C3_Witness ==
    /\ endReason = "cap"
    /\ new_posts_made = 5
    /\ Len(file) - startLen = 5
    /\ idx <= Len(sorted_articles)
    /\ Str(sorted_articles[idx].id) \notin posted_ids
    /\ sorted_articles[idx].href

\* the rewrite of the last iteration failed: no usable credential, an error
\* of the service, or a response that is no headline/body pair
RewriteFailed ==
    /\ last.g # "none"
    /\ \/ env.gemini = "DUMMY_KEY"
       \/ last.g \in {"quota", "error", "not_json", "no_headline", "no_body",
                      "empty", "list"}

\* C4: whenever the rewrite step fails for an article, the publisher is not
\* invoked for it in that run and its id is not added to the History.
C4_FailedRewriteNotPublished ==
    RewriteFailed => ~last.invoked /\ last.branch # "posted"

\* the claim's sweep: from index i, after k attempts, try while quota errors
RECURSIVE SpecSweep(_, _, _)
SpecSweep(p, i, k) ==
    IF k = Len(p) THEN <<>>
    ELSE <<i>> \o (IF p[i] = "quota" THEN SpecSweep(p, (i % Len(p)) + 1, k + 1)
                   ELSE <<>>)

SweepEnd(p) == SpecSweep(p, 1, 0)[Len(SpecSweep(p, 1, 0))]

NonMedia(raw) == {i \in 1..Len(raw) : raw[i].type # "Media"}

\* sorted is raw's non-media entries, each once, by descending timestamp,
\* equal timestamps in raw's order: h maps positions of sorted to raw
IsStableDescOf(sorted, raw) ==
    /\ Len(sorted) = Cardinality(NonMedia(raw))
    /\ \E h \in [1..Len(sorted) -> NonMedia(raw)] :
         /\ \A j \in 1..Len(sorted) : sorted[j] = raw[h[j]]
         /\ \A j, k \in 1..Len(sorted) :
              j < k =>
                /\ h[j] # h[k]
                /\ ~LexLess(raw[h[j]].published, raw[h[k]].published)
                /\ raw[h[j]].published = raw[h[k]].published => h[j] < h[k]

\* C7: the list the loop iterates is exactly the summaries that are not
\* media, ordered by the published string descending, equal timestamps in
\* their original order; none dropped or duplicated.
C7_FilterSortStable ==
    pc = "sorted" => IsStableDescOf(sorted_articles, raw_articles)

\* the order of the claim's example, with a tie: published 1, 2, 2 comes
\* out as 2, 2 (in the original order), 1
C7_Witness ==
    /\ pc = "sorted"
    /\ sorted_articles =
         << Summary(<<1>>, "Story", <<2>>, TRUE, TRUE),
            Summary(<<2>>, "Story", <<2>>, TRUE, TRUE),
            Summary(<<1>>, "Story", <<1>>, TRUE, TRUE) >>
    /\ raw_articles[1].published = <<1>>

\* C8: whatever feeds fail, every article of every other feed is returned,
\* tagged with its source and league.
C8_OtherFeedsCollected ==
    \A l \in 1..NumLeagues :
        fetch[l] = "ok" =>
            \A i \in 1..Len(EspnFeeds[l]) :
                \E j \in 1..Len(raw_articles) :
                    raw_articles[j] = Tag(EspnFeeds[l][i], l)

\* the ids appended to the History by the current run
RunAdded == SubSeq(file, startLen + 1, Len(file))

\* C9: no id is published twice in one run.
C9_OncePerRun ==
    \A i, j \in 1..Len(RunAdded) : RunAdded[i] = RunAdded[j] => i = j

\* C10: no failure while processing one article ends the run: a run that
\* got past the credential check and collected its candidates ends at the
\* cap or at the end of the list.
C10_NaturalEnd == endReason # "exception"

====
